---------------------------- MODULE Spec2Model ----------------------------
(***************************************************************************)
(* Model of the itinerary optimisation core of QuestionNo5/WeatherApp.py:  *)
(* TouristSpot, Itinerary and ItineraryOptimizer (greedy_heuristic,        *)
(* _nearest_neighbor, brute_force).                                        *)
(*                                                                         *)
(* Units.  The code computes with floats; the model computes with exact    *)
(* integers in scaled units:                                               *)
(*   - time is counted in tenths of an hour (2.0 h = 20, 0.5 h = 5);       *)
(*   - coordinates are counted in 1/200 of a degree, so that               *)
(*     distance * 20 hours  =  distance-in-units tenths of an hour;        *)
(*   - scores are multiplied by 100 (entry_fee / 100 becomes entry_fee).   *)
(* All spots of the model lie at pairwise integral distances, so every     *)
(* square root is exact.                                                   *)
(*                                                                         *)
(* A TouristSpot object is represented by its identity (its index in       *)
(* SpotTable); its attributes are read from that table.  TouristSpot       *)
(* defines neither __eq__ nor __hash__, so a Python set of spots hashes    *)
(* them by identity (memory address): the iteration order of such a set is *)
(* fixed for the life of the objects but is not the list order.  The       *)
(* variable hash_seed stands for the address layout of the process.        *)
(***************************************************************************)
EXTENDS Integers, Sequences, FiniteSets, TLC

VARIABLES
    spots,                  \* the catalog handed to the planners (list of spot ids)
    budget,                 \* budget argument
    time_available,         \* time_available argument (tenths of an hour)
    interests,              \* interests argument (set of tags)
    hash_seed,              \* address layout of the TouristSpot objects
    greedy_result,          \* Itinerary returned by the last greedy_heuristic call
    greedy_prev,            \* Itinerary returned by the call before it
    brute_result,           \* Itinerary returned by the last brute_force call
    brute_prev,             \* Itinerary returned by the call before it
    nn_input,               \* argument of the last _nearest_neighbor call
    nn_output,              \* list returned by the last _nearest_neighbor call
    pc,                     \* where a call followed statement by statement stands
    scored_spots,           \* greedy_heuristic: the sorted spots not yet visited by the loop
    selected,               \* greedy_heuristic: selected
    remaining_budget,       \* greedy_heuristic: remaining_budget
    remaining_time,         \* greedy_heuristic: remaining_time
    current_selection,      \* greedy_heuristic: current_selection
    nn_route,               \* _nearest_neighbor: route
    nn_remaining,           \* _nearest_neighbor: remaining
    bf_r,                   \* brute_force: r
    bf_subsets,             \* brute_force: the combinations of size r
    bf_k,                   \* brute_force: position of the loop in the combinations
    bf_best                 \* brute_force: best_itinerary and best_score

inputs == <<spots, budget, time_available, interests, hash_seed>>

results == <<greedy_result, greedy_prev, brute_result, brute_prev>>

nn_call == <<nn_input, nn_output>>

greedy_locals == <<scored_spots, selected, remaining_budget, remaining_time,
                   current_selection, nn_route, nn_remaining>>

brute_locals == <<bf_r, bf_subsets, bf_k, bf_best>>

vars == <<inputs, results, nn_call, pc, greedy_locals, brute_locals>>

\* no call has returned yet: an Itinerary-shaped value no call returns, and a
\* list no call takes
None == [spots |-> <<>>, algorithm |-> "None", total_cost |-> 0, total_time |-> 0]

NoList == <<0>>

(***************************************************************************)
(* Bounds of the model.                                                    *)
(***************************************************************************)
\* longest catalog drawn freely from ShortPool
MaxSites == 4
\* how many entries past the brute-force cap the long catalogs reach
MaxExtra == 1

(***************************************************************************)
(* Program constants (scaled as described above).                          *)
(***************************************************************************)
\* interest weight: len(tags & interests) * 10
SCORE_WEIGHT == 10
\* cost penalty divisor: entry_fee / 100; scores are kept multiplied by it
COST_DIVISOR == 100
\* visit_time = 2.0 hours, in tenths of an hour
VISIT_TIME == 20
\* travel_time = 0.5 hours estimated for the first spot, in tenths of an hour
EST_TRAVEL == 5
\* n = min(len(spots), 6)
BRUTE_LIMIT == 6
\* best_score = -1, multiplied by COST_DIVISOR
INIT_BEST_SCORE == -100

(***************************************************************************)
(* The TouristSpot objects the catalogs of the model are made of.  The     *)
(* planners take any list of TouristSpot; the attribute values here are    *)
(* chosen so that every distance is integral, some spots are free, some    *)
(* score equally and some lie at equal distances.  Positions are in 1/200  *)
(* degree; seven spots lie on one parallel and one lies north of the       *)
(* first.                                                                  *)
(***************************************************************************)
SpotTable == <<
    [name |-> "Spot 1", latitude |-> 0,  longitude |-> 0,
     entry_fee |-> 0,   tags |-> {"culture", "religious"}],
    [name |-> "Spot 2", latitude |-> 0,  longitude |-> -5,
     entry_fee |-> 100, tags |-> {"culture", "heritage"}],
    [name |-> "Spot 3", latitude |-> 0,  longitude |-> 5,
     entry_fee |-> 50,  tags |-> {"nature", "relaxation"}],
    [name |-> "Spot 4", latitude |-> 0,  longitude |-> 16,
     entry_fee |-> 150, tags |-> {"nature", "adventure"}],
    [name |-> "Spot 5", latitude |-> 0,  longitude |-> -9,
     entry_fee |-> 100, tags |-> {"culture", "heritage"}],
    [name |-> "Spot 6", latitude |-> 12, longitude |-> 0,
     entry_fee |-> 150, tags |-> {"culture", "heritage"}],
    [name |-> "Spot 7", latitude |-> 0,  longitude |-> 9,
     entry_fee |-> 0,   tags |-> {"culture", "heritage"}],
    [name |-> "Spot 8", latitude |-> 0,  longitude |-> -16,
     entry_fee |-> 100, tags |-> {"culture", "religious"}] >>

SpotIds == 1..Len(SpotTable)

entry_fee(s) == SpotTable[s].entry_fee

\* math.sqrt on the perfect squares the spot table produces
Sqrt(n) == CHOOSE r \in 0..n : r * r = n

\* TouristSpot.distance_to for every pair of spots
DistanceTable ==
    [a \in SpotIds, b \in SpotIds |->
        LET dx == SpotTable[a].latitude - SpotTable[b].latitude
            dy == SpotTable[a].longitude - SpotTable[b].longitude
        IN  Sqrt(dx * dx + dy * dy)]

distance_to(a, b) == DistanceTable[a, b]

\* distance * 20 hours: one distance unit is one tenth of an hour
travel(a, b) == distance_to(a, b)

\* TouristSpot.interest_score
interest_score(s, user_interests) ==
    Cardinality(SpotTable[s].tags \cap user_interests) * SCORE_WEIGHT

RECURSIVE SumFees(_)
\* sum(spot.entry_fee for spot in spots)
SumFees(seq) ==
    IF seq = <<>> THEN 0 ELSE entry_fee(Head(seq)) + SumFees(Tail(seq))

RECURSIVE SumInterest(_, _)
\* sum(s.interest_score(interests) for s in seq)
SumInterest(seq, user_interests) ==
    IF seq = <<>> THEN 0
    ELSE interest_score(Head(seq), user_interests)
         + SumInterest(Tail(seq), user_interests)

RECURSIVE TravelSum(_)
\* the loop adding distance * 20 over consecutive spots
TravelSum(seq) ==
    IF Len(seq) <= 1 THEN 0
    ELSE travel(seq[1], seq[2]) + TravelSum(Tail(seq))

\* Itinerary._calculate_time
calculate_time(seq) ==
    IF seq = <<>> THEN 0 ELSE Len(seq) * VISIT_TIME + TravelSum(seq)

\* Itinerary.__init__
Itinerary(seq, algorithm) ==
    [spots |-> seq, algorithm |-> algorithm,
     total_cost |-> SumFees(seq), total_time |-> calculate_time(seq)]


(***************************************************************************)
(* Set iteration.  set(spots[1:]) holds the spots by identity hash; min()  *)
(* walks the set in table order and keeps the first minimal element.  The  *)
(* slot of a spot is derived from its address; hash_seed selects one       *)
(* address layout among HashSeeds.                                         *)
(***************************************************************************)
HashSeeds == {1, 10}

\* table size of the model's sets: a prime larger than every spot id
HashModulus == Len(SpotTable) + 3

\* position of a spot in the iteration order of a set of spots
HashSlot(s) == (s * hash_seed) % HashModulus

\* min(remaining, key=lambda s: current.distance_to(s))
MinByDistance(remaining, current) ==
    CHOOSE s \in remaining :
        \A t \in remaining :
            \/ distance_to(current, s) < distance_to(current, t)
            \/ /\ distance_to(current, s) = distance_to(current, t)
               /\ HashSlot(s) <= HashSlot(t)

ToSet(seq) == {seq[i] : i \in 1..Len(seq)}

RECURSIVE NearestLoop(_, _)
\* the while loop of _nearest_neighbor
NearestLoop(route, remaining) ==
    IF remaining = {} THEN route
    ELSE LET current == route[Len(route)]
             nearest == MinByDistance(remaining, current)
         IN  NearestLoop(Append(route, nearest), remaining \ {nearest})

\* _nearest_neighbor seeding the route from the set instead of the list:
\* remaining = set(spots); route = [first spot the set yields]
NearestNeighborFromSet(list) ==
    IF Len(list) <= 1 THEN list
    ELSE LET all  == ToSet(list)
             seed == CHOOSE s \in all : \A t \in all : HashSlot(s) <= HashSlot(t)
         IN  NearestLoop(<<seed>>, all \ {seed})

\* ItineraryOptimizer._nearest_neighbor
nearest_neighbor(list) ==
    IF Len(list) <= 1 THEN list
    ELSE NearestLoop(<<list[1]>>, ToSet(Tail(list)))

(***************************************************************************)
(* greedy_heuristic                                                        *)
(***************************************************************************)
\* total_score = interest_score + cost_score, multiplied by COST_DIVISOR
total_score(s, user_interests) ==
    interest_score(s, user_interests) * COST_DIVISOR - entry_fee(s)

RECURSIVE sort_scored(_, _)
\* scored_spots.sort(reverse=True, key=lambda x: x[0]): descending score,
\* equal scores keep their list order (the sort is stable)
sort_scored(list, user_interests) ==
    IF list = <<>> THEN <<>>
    ELSE LET n    == Len(list)
             init == sort_scored(SubSeq(list, 1, n - 1), user_interests)
             x    == list[n]
             k    == Cardinality({i \in 1..Len(init) :
                        total_score(init[i], user_interests)
                            >= total_score(x, user_interests)})
         IN  SubSeq(init, 1, k) \o <<x>> \o SubSeq(init, k + 1, Len(init))

\* SelectStep charging the flat 0.5 h estimate for every spot
SelectStepFlatTravel(sel, spot) ==
    LET total_time_needed == VISIT_TIME + EST_TRAVEL
    IN  IF entry_fee(spot) <= sel.remaining_budget
           /\ total_time_needed <= sel.remaining_time
        THEN [selected         |-> Append(sel.selected, spot),
              remaining_budget |-> sel.remaining_budget - entry_fee(spot),
              remaining_time   |-> sel.remaining_time - total_time_needed]
        ELSE sel

\* SelectStep charging no travel for the first spot
SelectStepNoEstimate(sel, spot) ==
    LET travel_time == IF sel.selected # <<>>
                       THEN travel(sel.selected[Len(sel.selected)], spot)
                       ELSE 0
        total_time_needed == VISIT_TIME + travel_time
    IN  IF entry_fee(spot) <= sel.remaining_budget
           /\ total_time_needed <= sel.remaining_time
        THEN [selected         |-> Append(sel.selected, spot),
              remaining_budget |-> sel.remaining_budget - entry_fee(spot),
              remaining_time   |-> sel.remaining_time - total_time_needed]
        ELSE sel

\* SelectStep without the entry-fee test
SelectStepNoBudget(sel, spot) ==
    LET travel_time == IF sel.selected # <<>>
                       THEN travel(sel.selected[Len(sel.selected)], spot)
                       ELSE EST_TRAVEL
        total_time_needed == VISIT_TIME + travel_time
    IN  IF total_time_needed <= sel.remaining_time
        THEN [selected         |-> Append(sel.selected, spot),
              remaining_budget |-> sel.remaining_budget - entry_fee(spot),
              remaining_time   |-> sel.remaining_time - total_time_needed]
        ELSE sel

\* one iteration of the selection loop: sel is the record of the loop's
\* locals selected, remaining_budget, remaining_time
SelectStep(sel, spot) ==
    LET travel_time == IF sel.selected # <<>>
                       THEN travel(sel.selected[Len(sel.selected)], spot)
                       ELSE EST_TRAVEL
        total_time_needed == VISIT_TIME + travel_time
    IN  IF entry_fee(spot) <= sel.remaining_budget
           /\ total_time_needed <= sel.remaining_time
        THEN [selected         |-> Append(sel.selected, spot),
              remaining_budget |-> sel.remaining_budget - entry_fee(spot),
              remaining_time   |-> sel.remaining_time - total_time_needed]
        ELSE sel

RECURSIVE SelectLoop(_, _)
\* for score, spot in scored_spots
SelectLoop(sel, scored) ==
    IF scored = <<>> THEN sel
    ELSE SelectLoop(SelectStep(sel, Head(scored)), Tail(scored))

\* the selection of greedy_heuristic, from the sort to the end of the loop
GreedySelect(list, b, t, user_interests) ==
    SelectLoop([selected |-> <<>>, remaining_budget |-> b, remaining_time |-> t],
               sort_scored(list, user_interests))

\* a pop() that removes the first element of the list
PopFirst(list) == Tail(list)

\* a pop() that leaves the list as it is
PopNothing(list) == list

\* current_selection.pop(): the list without its last element
Pop(list) == SubSeq(list, 1, Len(list) - 1)

\* the repair loop returning its first route without the time test
RepairLoopNoCheck(selection, t) ==
    IF Len(selection) = 0 THEN Itinerary(<<>>, "Greedy Heuristic")
    ELSE Itinerary(nearest_neighbor(selection), "Greedy Heuristic")

RECURSIVE RepairLoop(_, _)
\* while len(current_selection) > 0: route, check, pop
RepairLoop(selection, t) ==
    IF Len(selection) = 0 THEN Itinerary(<<>>, "Greedy Heuristic")
    ELSE LET route     == nearest_neighbor(selection)
             itinerary == Itinerary(route, "Greedy Heuristic")
         IN  IF itinerary.total_time <= t THEN itinerary
             ELSE RepairLoop(Pop(selection), t)

\* greedy_heuristic with remaining_budget kept between calls: a later call
\* starts from what the call before it left
GreedyKeepingBudget(list, b, t, user_interests) ==
    LET left     == IF greedy_result = None THEN b
                    ELSE b - greedy_result.total_cost
        chosen   == GreedySelect(list, left, t, user_interests).selected
    IN  IF chosen = <<>> THEN Itinerary(<<>>, "Greedy Heuristic")
        ELSE RepairLoop(chosen, t)

\* greedy_heuristic taking the flat 0.5 h estimate as part of every route
GreedyNeedsEstimate(list, b, t, user_interests) ==
    LET chosen == GreedySelect(list, b, t - EST_TRAVEL, user_interests).selected
    IN  IF chosen = <<>> THEN Itinerary(<<>>, "Greedy Heuristic")
        ELSE RepairLoop(chosen, t)

\* ItineraryOptimizer.greedy_heuristic
greedy_heuristic(list, b, t, user_interests) ==
    LET chosen == GreedySelect(list, b, t, user_interests).selected
    IN  IF chosen = <<>> THEN Itinerary(<<>>, "Greedy Heuristic")
        ELSE RepairLoop(chosen, t)

(***************************************************************************)
(* brute_force                                                             *)
(***************************************************************************)
RECURSIVE combinations(_, _)
\* itertools.combinations(list, r): the r-element subsequences, in
\* lexicographic order of their positions
combinations(list, r) ==
    IF r = 0 THEN << <<>> >>
    ELSE IF Len(list) < r THEN <<>>
    ELSE LET with == combinations(Tail(list), r - 1)
         IN  [j \in 1..Len(with) |-> <<Head(list)>> \o with[j]]
             \o combinations(Tail(list), r)

RemoveAt(list, i) == SubSeq(list, 1, i - 1) \o SubSeq(list, i + 1, Len(list))

RECURSIVE permutations(_)
RECURSIVE PermutationsFrom(_, _)
\* the permutations of list whose first element is list[i], list[i+1], ...
PermutationsFrom(list, i) ==
    IF i > Len(list) THEN <<>>
    ELSE LET rest == permutations(RemoveAt(list, i))
         IN  [j \in 1..Len(rest) |-> <<list[i]>> \o rest[j]]
             \o PermutationsFrom(list, i + 1)

\* itertools.permutations(list): lexicographic order of positions
permutations(list) ==
    IF list = <<>> THEN << <<>> >> ELSE PermutationsFrom(list, 1)

\* time = len(perm_list) * 2.0 plus distance * 20 over consecutive spots
perm_time(perm_list) == Len(perm_list) * VISIT_TIME + TravelSum(perm_list)

\* the subset taken in the order itertools.combinations yields it, without
\* the search over its permutations
BestPermAsListed(subset) == [perm |-> subset, time |-> perm_time(subset)]

\* for perm in itertools.permutations(subset): min_time_for_subset starts at
\* inf and a permutation replaces the best one only on a strictly smaller
\* time, so the loop ends with the first permutation of least time
BestPerm(subset) ==
    LET perms == permutations(subset)
        times == [k \in 1..Len(perms) |-> perm_time(perms[k])]
        least == CHOOSE m \in ToSet(times) : \A x \in ToSet(times) : m <= x
        first == CHOOSE k \in 1..Len(perms) :
                    /\ times[k] = least
                    /\ \A j \in 1..(k - 1) : times[j] # least
    IN  [perm |-> perms[first], time |-> least]

\* best_itinerary = Itinerary([], "Brute Force"); best_score = -1
InitialBest ==
    [best_itinerary |-> Itinerary(<<>>, "Brute Force"),
     best_score     |-> INIT_BEST_SCORE]

\* SubsetStep without the budget test
SubsetStepNoBudget(best, subset, b, t, user_interests) ==
    LET subset_cost == SumFees(subset)
        bp == BestPerm(subset)
    IN  IF bp.time <= t
        THEN LET score == SumInterest(bp.perm, user_interests) * COST_DIVISOR
                          - subset_cost
             IN  IF score > best.best_score
                 THEN [best_itinerary |-> Itinerary(bp.perm, "Brute Force"),
                       best_score     |-> score]
                 ELSE best
        ELSE best

\* the body of "for subset in itertools.combinations(spots_subset, r)":
\* best is the record of best_itinerary and best_score
SubsetStep(best, subset, b, t, user_interests) ==
    LET subset_cost == SumFees(subset)
    IN  IF subset_cost > b THEN best
        ELSE LET bp == BestPerm(subset)
             IN  IF bp.time <= t
                 THEN LET score == SumInterest(bp.perm, user_interests) * COST_DIVISOR
                                   - subset_cost
                      IN  IF score > best.best_score
                          THEN [best_itinerary |-> Itinerary(bp.perm, "Brute Force"),
                                best_score     |-> score]
                          ELSE best
                 ELSE best

RECURSIVE CombinationLoop(_, _, _, _, _, _)
\* for subset in itertools.combinations(spots_subset, r).  (The two branches
\* pass the same value on; comparing it first makes TLC compute each
\* iteration's result before the next iteration starts.)
CombinationLoop(subsets, k, best, b, t, user_interests) ==
    IF k > Len(subsets) THEN best
    ELSE LET next == SubsetStep(best, subsets[k], b, t, user_interests)
         IN  IF next = best
             THEN CombinationLoop(subsets, k + 1, best, b, t, user_interests)
             ELSE CombinationLoop(subsets, k + 1, next, b, t, user_interests)

RECURSIVE SizeLoopShort(_, _, _, _, _, _)
\* the loop over sizes as "for r in range(1, n)": the subset of all n spots
\* is never tried
SizeLoopShort(list, r, best, b, t, user_interests) ==
    IF r >= Len(list) THEN best
    ELSE LET next == CombinationLoop(combinations(list, r), 1, best,
                                     b, t, user_interests)
         IN  IF next = best
             THEN SizeLoopShort(list, r + 1, best, b, t, user_interests)
             ELSE SizeLoopShort(list, r + 1, next, b, t, user_interests)

RECURSIVE SizeLoop(_, _, _, _, _, _)
\* for r in range(1, n + 1)
SizeLoop(list, r, best, b, t, user_interests) ==
    IF r > Len(list) THEN best
    ELSE LET next == CombinationLoop(combinations(list, r), 1, best,
                                     b, t, user_interests)
         IN  IF next = best
             THEN SizeLoop(list, r + 1, best, b, t, user_interests)
             ELSE SizeLoop(list, r + 1, next, b, t, user_interests)

Min2(a, b) == IF a <= b THEN a ELSE b

\* n without the cap
BruteNUncapped(list) == Len(list)

\* n = min(len(spots), 6)
BruteN(list) == Min2(Len(list), BRUTE_LIMIT)

\* spots_subset = spots[:n]
spots_subset(list) == SubSeq(list, 1, BruteN(list))

\* ItineraryOptimizer.brute_force
brute_force(list, b, t, user_interests) ==
    SizeLoop(spots_subset(list), 1, InitialBest, b, t, user_interests).best_itinerary


(***************************************************************************)
(* Inputs.                                                                 *)
(***************************************************************************)
ShortPool == {1, 2, 3, 4, 5}

AllSpots == [i \in SpotIds |-> i]

RECURSIVE Restrict(_, _)
\* the entries of a list that lie in a set, in list order
Restrict(list, S) ==
    IF list = <<>> THEN <<>>
    ELSE (IF Head(list) \in S THEN <<Head(list)>> ELSE <<>>)
         \o Restrict(Tail(list), S)

Reverse(list) == [i \in 1..Len(list) |-> list[Len(list) + 1 - i]]

\* catalogs of at most MaxSites spots of ShortPool, in table order or in
\* the opposite order
ShortCatalogs ==
    UNION {{Restrict(AllSpots, S), Reverse(Restrict(AllSpots, S))} :
           S \in {T \in SUBSET ShortPool : Cardinality(T) <= MaxSites}}

\* the table from its first entry up to the brute-force cap and past it
LongCatalogs ==
    {SubSeq(AllSpots, 1, Min2(BRUTE_LIMIT + k, Len(AllSpots))) : k \in 0..MaxExtra}

Catalogs == ShortCatalogs \cup LongCatalogs

Budgets == {0, 100, 300}

\* 1.0 h, 2.0 h, 2.5 h, 6.0 h, 11.5 h
Times == {10, 20, 25, 60, 115}

InterestSets == {{}, {"culture"}, {"culture", "heritage"}, {"culture", "nature"}}

\* nothing has been called
Idle ==
    /\ greedy_result = None
    /\ greedy_prev = None
    /\ brute_result = None
    /\ brute_prev = None
    /\ nn_input = NoList
    /\ nn_output = NoList
    /\ pc = "idle"
    /\ scored_spots = <<>>
    /\ selected = <<>>
    /\ remaining_budget = 0
    /\ remaining_time = 0
    /\ current_selection = <<>>
    /\ nn_route = <<>>
    /\ nn_remaining = {}
    /\ bf_r = 0
    /\ bf_subsets = <<>>
    /\ bf_k = 0
    /\ bf_best = InitialBest

Init ==
    /\ spots \in Catalogs
    /\ budget \in Budgets
    /\ time_available \in Times
    /\ interests \in InterestSets
    /\ hash_seed \in HashSeeds
    /\ Idle

\* a caller runs greedy_heuristic on the inputs (at most twice)
CallGreedy ==
    /\ greedy_prev = None
    /\ greedy_prev' = greedy_result
    /\ greedy_result' = greedy_heuristic(spots, budget, time_available, interests)
    /\ UNCHANGED <<inputs, brute_result, brute_prev, nn_call, pc,
                   greedy_locals, brute_locals>>

\* a caller runs brute_force on the inputs (at most twice)
CallBrute ==
    /\ brute_prev = None
    /\ brute_prev' = brute_result
    /\ brute_result' = brute_force(spots, budget, time_available, interests)
    /\ UNCHANGED <<inputs, greedy_result, greedy_prev, nn_call, pc,
                   greedy_locals, brute_locals>>

Next == CallGreedy \/ CallBrute

Spec == Init /\ [][Next]_vars


(***************************************************************************)
(* The two planners followed statement by statement: one call of           *)
(* greedy_heuristic, then one call of brute_force, each loop iteration a   *)
(* step.  The code is single-threaded and nothing in it waits, so a call   *)
(* that can take a step takes it.                                          *)
(***************************************************************************)
\* greedy_heuristic is entered: the spots are scored and sorted
GreedyEnter ==
    /\ pc = "idle"
    /\ pc' = "select"
    /\ scored_spots' = sort_scored(spots, interests)
    /\ selected' = <<>>
    /\ remaining_budget' = budget
    /\ remaining_time' = time_available
    /\ UNCHANGED <<inputs, results, nn_call, current_selection, nn_route,
                   nn_remaining, brute_locals>>

\* one iteration of "for score, spot in scored_spots"
SelectIteration ==
    /\ pc = "select"
    /\ scored_spots # <<>>
    /\ LET sel == SelectStep([selected         |-> selected,
                              remaining_budget |-> remaining_budget,
                              remaining_time   |-> remaining_time],
                             Head(scored_spots))
       IN  /\ selected' = sel.selected
           /\ remaining_budget' = sel.remaining_budget
           /\ remaining_time' = sel.remaining_time
    /\ scored_spots' = Tail(scored_spots)
    /\ UNCHANGED <<inputs, results, nn_call, pc, current_selection, nn_route,
                   nn_remaining, brute_locals>>

\* the loop is over: "if not selected: return", else current_selection = list(selected)
SelectEnd ==
    /\ pc = "select"
    /\ scored_spots = <<>>
    /\ IF selected = <<>>
       THEN /\ pc' = "greedy_returned"
            /\ greedy_result' = Itinerary(<<>>, "Greedy Heuristic")
            /\ UNCHANGED current_selection
       ELSE /\ pc' = "repair"
            /\ current_selection' = selected
            /\ UNCHANGED greedy_result
    /\ UNCHANGED <<inputs, greedy_prev, brute_result, brute_prev, nn_call,
                   scored_spots, selected, remaining_budget, remaining_time,
                   nn_route, nn_remaining, brute_locals>>

\* "while len(current_selection) > 0": _nearest_neighbor is entered, or the
\* loop is left and the empty Itinerary returned
RepairTest ==
    /\ pc = "repair"
    /\ IF Len(current_selection) > 0
       THEN /\ IF Len(current_selection) <= 1
               THEN /\ nn_route' = current_selection
                    /\ nn_remaining' = {}
                    /\ pc' = "check"
               ELSE /\ nn_route' = <<current_selection[1]>>
                    /\ nn_remaining' = ToSet(Tail(current_selection))
                    /\ pc' = "route"
            /\ UNCHANGED greedy_result
       ELSE /\ pc' = "greedy_returned"
            /\ greedy_result' = Itinerary(<<>>, "Greedy Heuristic")
            /\ UNCHANGED <<nn_route, nn_remaining>>
    /\ UNCHANGED <<inputs, greedy_prev, brute_result, brute_prev, nn_call,
                   scored_spots, selected, remaining_budget, remaining_time,
                   current_selection, brute_locals>>

\* one iteration of "while remaining" in _nearest_neighbor
RouteIteration ==
    /\ pc = "route"
    /\ nn_remaining # {}
    /\ LET current == nn_route[Len(nn_route)]
           nearest == MinByDistance(nn_remaining, current)
       IN  /\ nn_route' = Append(nn_route, nearest)
           /\ nn_remaining' = nn_remaining \ {nearest}
    /\ UNCHANGED <<inputs, results, nn_call, pc, scored_spots, selected,
                   remaining_budget, remaining_time, current_selection,
                   brute_locals>>

\* _nearest_neighbor returns route
RouteEnd ==
    /\ pc = "route"
    /\ nn_remaining = {}
    /\ pc' = "check"
    /\ UNCHANGED <<inputs, results, nn_call, greedy_locals, brute_locals>>

\* the Itinerary of the route is returned if it fits the time, else the
\* last selected spot is popped and the loop goes round
RepairCheck ==
    /\ pc = "check"
    /\ LET itinerary == Itinerary(nn_route, "Greedy Heuristic")
       IN  IF itinerary.total_time <= time_available
           THEN /\ pc' = "greedy_returned"
                /\ greedy_result' = itinerary
                /\ UNCHANGED current_selection
           ELSE /\ pc' = "repair"
                /\ current_selection' = Pop(current_selection)
                /\ UNCHANGED greedy_result
    /\ UNCHANGED <<inputs, greedy_prev, brute_result, brute_prev, nn_call,
                   scored_spots, selected, remaining_budget, remaining_time,
                   nn_route, nn_remaining, brute_locals>>

\* brute_force is entered
BruteEnter ==
    /\ pc = "greedy_returned"
    /\ pc' = "size"
    /\ bf_best' = InitialBest
    /\ bf_r' = 1
    /\ UNCHANGED <<inputs, results, nn_call, greedy_locals, bf_subsets, bf_k>>

\* "for r in range(1, n + 1)": the combinations of the next size, or the
\* return of best_itinerary
SizeIteration ==
    /\ pc = "size"
    /\ IF bf_r <= BruteN(spots)
       THEN /\ bf_subsets' = combinations(spots_subset(spots), bf_r)
            /\ bf_k' = 1
            /\ pc' = "subset"
            /\ UNCHANGED brute_result
       ELSE /\ brute_result' = bf_best.best_itinerary
            /\ pc' = "done"
            /\ UNCHANGED <<bf_subsets, bf_k>>
    /\ UNCHANGED <<inputs, greedy_result, greedy_prev, brute_prev, nn_call,
                   greedy_locals, bf_r, bf_best>>

\* one iteration of "for subset in itertools.combinations(spots_subset, r)",
\* or the end of that loop
SubsetIteration ==
    /\ pc = "subset"
    /\ IF bf_k <= Len(bf_subsets)
       THEN /\ bf_best' = SubsetStep(bf_best, bf_subsets[bf_k], budget,
                                     time_available, interests)
            /\ bf_k' = bf_k + 1
            /\ UNCHANGED <<pc, bf_r>>
       ELSE /\ bf_r' = bf_r + 1
            /\ pc' = "size"
            /\ UNCHANGED <<bf_best, bf_k>>
    /\ UNCHANGED <<inputs, results, nn_call, greedy_locals, bf_subsets>>

NextSteps ==
    \/ GreedyEnter
    \/ SelectIteration
    \/ SelectEnd
    \/ RepairTest
    \/ RouteIteration
    \/ RouteEnd
    \/ RepairCheck
    \/ BruteEnter
    \/ SizeIteration
    \/ SubsetIteration

SpecSteps == Init /\ [][NextSteps]_vars

\* the calls followed step by step return what the calls taken whole return
StepsAgree ==
    /\ pc \in {"greedy_returned", "size", "subset", "done"} =>
          greedy_result = greedy_heuristic(spots, budget, time_available, interests)
    /\ pc = "done" =>
          brute_result = brute_force(spots, budget, time_available, interests)

(***************************************************************************)
(* A caller runs _nearest_neighbor on a list of its own.                   *)
(***************************************************************************)
InitRoute ==
    /\ spots \in Catalogs
    /\ budget = 0
    /\ time_available = 0
    /\ interests = {}
    /\ hash_seed \in HashSeeds
    /\ Idle

\* the lists a caller passes: every ordering of a short catalog; a long
\* catalog as it is and reversed
RouteInputs(list) ==
    IF Len(list) <= MaxSites THEN ToSet(permutations(list))
    ELSE {list, Reverse(list)}

CallNearestNeighbor ==
    /\ nn_input = NoList
    /\ \E list \in RouteInputs(spots) :
          /\ nn_input' = list
          /\ nn_output' = nearest_neighbor(list)
    /\ UNCHANGED <<inputs, results, pc, greedy_locals, brute_locals>>

NextRoute == CallNearestNeighbor

SpecRoute == InitRoute /\ [][NextRoute]_vars

(***************************************************************************)
(* Vocabulary of the properties.                                           *)
(***************************************************************************)
\* the Itineraries the two planners have returned so far
Returned == {greedy_result, brute_result} \ {None}

RECURSIVE FeeOfSet(_)
\* the entry fees of a set of spots, added up
FeeOfSet(S) ==
    IF S = {} THEN 0
    ELSE LET s == CHOOSE x \in S : TRUE IN entry_fee(s) + FeeOfSet(S \ {s})

RECURSIVE LegSum(_, _)
\* the travel time of the first i - 1 legs of a sequence
LegSum(seq, i) ==
    IF i < 2 THEN 0 ELSE distance_to(seq[i - 1], seq[i]) + LegSum(seq, i - 1)

\* 2.0 h per spot plus 20 x distance between consecutive spots
TimeOf(seq) ==
    IF seq = <<>> THEN 0 ELSE VISIT_TIME * Len(seq) + LegSum(seq, Len(seq))

IsDuplicateFree(seq) == \A i, j \in 1..Len(seq) : i # j => seq[i] # seq[j]

\* score of an itinerary (x COST_DIVISOR): interest scores minus cost / 100
ScoreOf(it) == SumInterest(it.spots, interests) * COST_DIVISOR - it.total_cost


(***************************************************************************)
(* C1.  Every Itinerary returned by greedy_heuristic or brute_force has    *)
(* total_cost equal to the sum of the entry fees of its spots, and         *)
(* total_cost <= budget.                                                   *)
(***************************************************************************)
C1_CostWithinBudget ==
    \A it \in Returned :
        /\ IsDuplicateFree(it.spots)
        /\ it.total_cost = FeeOfSet(ToSet(it.spots))
        /\ it.total_cost <= budget

\* both planners have returned several spots, the brute-force ones costing
\* exactly the budget
C1_Witness ==
    /\ greedy_result # None /\ Len(greedy_result.spots) >= 2
    /\ brute_result # None /\ Len(brute_result.spots) >= 2
    /\ greedy_result.total_cost > 0
    /\ brute_result.total_cost = budget

(***************************************************************************)
(* C2.  Every Itinerary returned by greedy_heuristic or brute_force is     *)
(* empty or has total_time <= time_available, where total_time is 2.0 h    *)
(* per spot plus 20 x the distance between consecutive spots (0 for the    *)
(* empty sequence).                                                        *)
(***************************************************************************)
C2_TimeWithinBudget ==
    \A it \in Returned :
        /\ it.total_time = TimeOf(it.spots)
        /\ it.spots = <<>> \/ it.total_time <= time_available

\* greedy_heuristic returned spots after its repair loop dropped one, and
\* brute_force returned a route of several spots
C2_Witness ==
    /\ greedy_result # None /\ greedy_result.spots # <<>>
    /\ Len(greedy_result.spots)
         < Len(GreedySelect(spots, budget, time_available, interests).selected)
    /\ brute_result # None /\ Len(brute_result.spots) >= 2


\* the catalog entries brute_force may use: the first min(n, 6)
Capped == SubSeq(spots, 1, Min2(Len(spots), BRUTE_LIMIT))

\* a non-empty set of spots is feasible when its fees fit the budget and its
\* fastest ordering fits the time
Feasible(S) ==
    /\ S # {}
    /\ FeeOfSet(S) <= budget
    /\ \E p \in ToSet(permutations(Restrict(AllSpots, S))) :
          TimeOf(p) <= time_available

FeasibleSubsets == {S \in SUBSET ToSet(Capped) : Feasible(S)}

\* score of a set of spots (x COST_DIVISOR)
ScoreOfSet(S) ==
    ScoreOf([spots |-> Restrict(AllSpots, S), total_cost |-> FeeOfSet(S)])

(***************************************************************************)
(* C3 as claimed.  For every catalog of at most 6 spots the brute_force    *)
(* result scores at least what the greedy_heuristic result scores (an      *)
(* empty itinerary scores 0).                                              *)
(***************************************************************************)
C3_Original ==
    (Len(spots) <= BRUTE_LIMIT /\ greedy_result # None /\ brute_result # None)
        => ScoreOf(brute_result) >= ScoreOf(greedy_result)

(***************************************************************************)
(* C3 as amended.  For every catalog of at most 6 spots for which          *)
(* greedy_heuristic returns a non-empty itinerary, the brute_force result  *)
(* scores at least what the greedy_heuristic result scores.                *)
(***************************************************************************)
C3_BruteAtLeastGreedy ==
    (/\ Len(spots) <= BRUTE_LIMIT
     /\ greedy_result # None /\ brute_result # None
     /\ greedy_result.spots # <<>>)
        => ScoreOf(brute_result) >= ScoreOf(greedy_result)

\* both planners returned spots and brute_force found a strictly better set
C3_Witness ==
    /\ Len(spots) <= BRUTE_LIMIT
    /\ greedy_result # None /\ Len(greedy_result.spots) >= 2
    /\ brute_result # None /\ brute_result.spots # <<>>
    /\ ScoreOf(brute_result) > ScoreOf(greedy_result)

(***************************************************************************)
(* C4 as claimed.  brute_force returns an itinerary whose score is the     *)
(* greatest over all feasible non-empty subsets of the first min(n, 6)     *)
(* catalog spots, and returns the empty Itinerary only when no subset is   *)
(* feasible.                                                               *)
(***************************************************************************)
C4_Original ==
    brute_result # None =>
        /\ brute_result.spots = <<>> => FeasibleSubsets = {}
        /\ brute_result.spots # <<>> =>
              /\ ToSet(brute_result.spots) \in FeasibleSubsets
              /\ \A S \in FeasibleSubsets :
                    ScoreOf(brute_result) >= ScoreOfSet(S)

(***************************************************************************)
(* C5 as claimed.  greedy_heuristic called with an empty interest set      *)
(* returns an empty Itinerary.                                             *)
(***************************************************************************)
C5_Original ==
    (interests = {} /\ greedy_result # None) => greedy_result.spots = <<>>

(***************************************************************************)
(* C5 as amended.  greedy_heuristic called with an empty interest set      *)
(* returns an Itinerary (it does not raise), which is empty exactly when   *)
(* the time budget is below 2.5 h or no catalog spot has entry_fee <=      *)
(* budget; the empty catalog is such a case.                               *)
(***************************************************************************)
C5_EmptyInterests ==
    (interests = {} /\ greedy_result # None) =>
        /\ greedy_result.algorithm = "Greedy Heuristic"
        /\ greedy_result.spots = <<>> <=>
              \/ time_available < VISIT_TIME + EST_TRAVEL
              \/ \A i \in 1..Len(spots) : entry_fee(spots[i]) > budget

\* greedy_heuristic was called with no interests and returned spots
C5_Witness ==
    /\ interests = {}
    /\ greedy_result # None
    /\ Len(greedy_result.spots) >= 2

(***************************************************************************)
(* C6 as claimed.  With budget = 0 both planners return an empty           *)
(* Itinerary.                                                              *)
(***************************************************************************)
C6_Original ==
    budget = 0 => \A it \in Returned : it.spots = <<>>

(***************************************************************************)
(* C6 as amended.  With budget = 0 both planners return an Itinerary that  *)
(* holds only spots whose entry_fee is 0; it is empty when every catalog   *)
(* spot has a positive entry fee.                                          *)
(***************************************************************************)
C6_ZeroBudget ==
    budget = 0 =>
        \A it \in Returned :
            /\ \A i \in 1..Len(it.spots) : entry_fee(it.spots[i]) = 0
            /\ (\A i \in 1..Len(spots) : entry_fee(spots[i]) > 0)
                  => it.spots = <<>>

\* with budget 0, a catalog of free and paid spots, both planners returned
\* a free spot
C6_Witness ==
    /\ budget = 0
    /\ \E i, j \in 1..Len(spots) :
          entry_fee(spots[i]) = 0 /\ entry_fee(spots[j]) > 0
    /\ greedy_result # None /\ greedy_result.spots # <<>>
    /\ brute_result # None /\ brute_result.spots # <<>>

C9_OnlyFirstSix ==
    brute_result # None =>
        /\ ToSet(brute_result.spots) \subseteq ToSet(Capped)
        /\ Len(spots) > BRUTE_LIMIT =>
              brute_result = brute_force(Capped, budget, time_available, interests)

\* brute_force returned spots for a catalog of more than six, from which
\* greedy_heuristic took one past the sixth
C9_Witness ==
    /\ Len(spots) > BRUTE_LIMIT
    /\ brute_result # None /\ brute_result.spots # <<>>
    /\ greedy_result # None
    /\ \E i \in (BRUTE_LIMIT + 1)..Len(spots) : spots[i] \in ToSet(greedy_result.spots)


(***************************************************************************)
(* C8.  For every duplicate-free list, _nearest_neighbor returns a         *)
(* permutation of the list (same spots, none twice, none left out) whose   *)
(* first element is the first element of the list; a list of at most one   *)
(* spot is returned unchanged.                                             *)
(***************************************************************************)
C8_RouteIsPermutation ==
    (nn_input # NoList /\ IsDuplicateFree(nn_input)) =>
        /\ Len(nn_output) = Len(nn_input)
        /\ ToSet(nn_output) = ToSet(nn_input)
        /\ IsDuplicateFree(nn_output)
        /\ nn_input # <<>> => nn_output[1] = nn_input[1]
        /\ Len(nn_input) <= 1 => nn_output = nn_input

\* _nearest_neighbor returned four or more spots in another order than the
\* list's
C8_Witness ==
    /\ nn_input # NoList
    /\ IsDuplicateFree(nn_input)
    /\ Len(nn_input) >= 4
    /\ nn_output # NoList
    /\ nn_output # nn_input


(***************************************************************************)
(* C10.  greedy_heuristic and brute_force terminate and return an          *)
(* Itinerary; the repair loop of greedy_heuristic runs at most             *)
(* len(selected) times, because every iteration that does not return       *)
(* removes one spot from current_selection.                                *)
(***************************************************************************)
\* statements brute_force has still to run from the loop over sizes at size r
RECURSIVE BruteWork(_)
BruteWork(r) ==
    IF r > BruteN(spots) THEN 1
    ELSE Len(combinations(spots_subset(spots), r)) + 2 + BruteWork(r + 1)

\* statements one round of the repair loop runs at most
CycleLen == Len(spots) + 3

\* statements left when greedy_heuristic has returned
GreedyBase == BruteWork(1) + 2

\* a bound on the statements the two calls have still to run, from the
\* statement at, the size r and index k of brute_force, and the lengths of
\* its subsets, of current_selection, of route and of scored_spots
VariantAt(at, r, k, nsubsets, nselection, nroute, nscored) ==
    CASE at = "done"            -> 0
      [] at = "size"            -> BruteWork(r)
      [] at = "subset"          -> BruteWork(r + 1) + 2 + nsubsets - k
      [] at = "greedy_returned" -> BruteWork(1) + 1
      [] at = "check"           -> GreedyBase + nselection * CycleLen
      [] at = "route"           -> GreedyBase + nselection * CycleLen
                                     + CycleLen - 1 - nroute
      [] at = "repair"          -> GreedyBase + nselection * CycleLen
                                     + CycleLen - 1
      [] at = "select"          -> GreedyBase + (Len(spots) + 1) * CycleLen
                                     + nscored
      [] at = "idle"            -> GreedyBase + (Len(spots) + 1) * CycleLen
                                     + Len(spots) + 1

Variant ==
    VariantAt(pc, bf_r, bf_k, Len(bf_subsets), Len(current_selection),
              Len(nn_route), Len(scored_spots))

\* C10: every statement of the two calls lowers a natural-number bound on the
\* statements left, so both calls end; a call that has not ended is at a
\* statement, and at the end both have returned an Itinerary; a round of the
\* repair loop that does not return removes exactly one spot from a
\* selection that started no longer than selected and is never tested empty
C10_Terminates ==
    /\ [][VariantAt(pc', bf_r', bf_k', Len(bf_subsets'), Len(current_selection'),
                     Len(nn_route'), Len(scored_spots')) < Variant]_vars
    /\ [](Variant >= 0)
    /\ [](pc # "done" => pc \in {"idle", "select", "repair", "route", "check",
                                 "greedy_returned", "size", "subset"})
    /\ [](pc = "done" => /\ greedy_result.algorithm = "Greedy Heuristic"
                          /\ brute_result.algorithm = "Brute Force")
    /\ [][(pc = "check" /\ pc' = "repair")
            => Len(current_selection') = Len(current_selection) - 1]_vars
    /\ [](pc \in {"repair", "route", "check"}
            => Len(current_selection) <= Len(selected))
    /\ [](pc = "check" => Len(current_selection) >= 1)

\* both calls have returned, greedy_heuristic after its repair loop removed
\* a spot and went round again
C10_Witness ==
    /\ pc = "done"
    /\ greedy_result # None /\ greedy_result.spots # <<>>
    /\ Len(current_selection) < Len(selected)
    /\ brute_result # None /\ brute_result.spots # <<>>


\* index of a spot in a duplicate-free list
Position(list, s) == CHOOSE i \in 1..Len(list) : list[i] = s

(***************************************************************************)
(* C11 as claimed.  Every spot _nearest_neighbor appends to the route is,  *)
(* among the spots not yet placed, one at the least distance from the spot *)
(* placed last, and among several at that least distance it is the one     *)
(* that comes first in the input list.                                     *)
(***************************************************************************)
C11_Original ==
    (nn_input # NoList /\ IsDuplicateFree(nn_input)) =>
        \A i \in 2..Len(nn_output) :
            LET placed   == {nn_output[j] : j \in 1..(i - 1)}
                unplaced == ToSet(nn_input) \ placed
                last     == nn_output[i - 1]
                d        == distance_to(last, nn_output[i])
            IN  /\ nn_output[i] \in unplaced
                /\ \A u \in unplaced :
                      /\ d <= distance_to(last, u)
                      /\ distance_to(last, u) = d =>
                            Position(nn_input, nn_output[i]) <= Position(nn_input, u)


\* the lengths of the prefixes of selected whose nearest-neighbour route
\* takes no more than the time budget
FittingPrefixes ==
    {n \in 1..Len(selected) :
        TimeOf(nearest_neighbor(SubSeq(selected, 1, n))) <= time_available}

LongestFitting == CHOOSE n \in FittingPrefixes : \A m \in FittingPrefixes : m <= n

(***************************************************************************)
(* C12.  The repair loop of greedy_heuristic prunes by removing the last   *)
(* element of the selection, which is in rank order (never an element      *)
(* chosen by its place in the route): current_selection is always a prefix *)
(* of selected, and the Itinerary returned is the nearest-neighbour route  *)
(* of the longest prefix of selected whose nearest-neighbour route has     *)
(* total_time <= time_available; its spots are the spots of that prefix.   *)
(***************************************************************************)
C12_PrunesLast ==
    /\ [][(pc = "check" /\ pc' = "repair")
            => current_selection'
                 = SubSeq(current_selection, 1, Len(current_selection) - 1)]_vars
    /\ [](\A i, j \in 1..Len(selected) :
            i < j => total_score(selected[i], interests)
                       >= total_score(selected[j], interests))
    /\ [](pc \in {"repair", "route", "check"}
            => current_selection = SubSeq(selected, 1, Len(current_selection)))
    /\ []((pc \in {"greedy_returned", "size", "subset", "done"} /\ selected # <<>>)
            => IF FittingPrefixes = {} THEN greedy_result.spots = <<>>
               ELSE /\ greedy_result.spots
                         = nearest_neighbor(SubSeq(selected, 1, LongestFitting))
                    /\ ToSet(greedy_result.spots)
                         = ToSet(SubSeq(selected, 1, LongestFitting)))

\* greedy_heuristic returned, after pruning, several spots in a route order
\* that is not their rank order
C12_Witness ==
    /\ pc = "done"
    /\ Len(greedy_result.spots) >= 2
    /\ Len(greedy_result.spots) < Len(selected)
    /\ greedy_result.spots # SubSeq(selected, 1, Len(greedy_result.spots))


\* the time the selection walk has charged for the spots it accepted: 2.0 h
\* for each, 0.5 h for reaching the first, and 20 x distance from each
\* accepted spot to the next
ChargedTime(sel) ==
    IF sel = <<>> THEN 0
    ELSE Len(sel) * VISIT_TIME + EST_TRAVEL + LegSum(sel, Len(sel))

(***************************************************************************)
(* C13.  In the selection walk of greedy_heuristic a candidate is appended *)
(* to selected if and only if entry_fee <= remaining_budget and            *)
(* 2.0 h + travel <= remaining_time, where travel is 0.5 h while nothing   *)
(* is selected and 20 x distance from the last accepted spot afterwards.   *)
(* After every step remaining_budget = budget - fees of selected >= 0 and  *)
(* remaining_time = time_available - time charged for selected >= 0.  The  *)
(* walk passes every candidate once: a rejected one is not taken up again, *)
(* and selected does not change after the walk.                            *)
(***************************************************************************)
C13_SelectionWalk ==
    /\ [][(pc = "select" /\ scored_spots # <<>>) =>
            LET spot        == Head(scored_spots)
                travel_time == IF selected = <<>> THEN EST_TRAVEL
                               ELSE distance_to(selected[Len(selected)], spot)
                fits        == /\ entry_fee(spot) <= remaining_budget
                               /\ VISIT_TIME + travel_time <= remaining_time
            IN  /\ selected' = IF fits THEN Append(selected, spot) ELSE selected
                /\ scored_spots' = Tail(scored_spots)]_vars
    /\ [][pc # "select" => selected' = selected]_vars
    /\ [](pc # "idle" =>
            /\ remaining_budget = budget - FeeOfSet(ToSet(selected))
            /\ remaining_budget >= 0
            /\ remaining_time = time_available - ChargedTime(selected)
            /\ remaining_time >= 0)
    /\ [](pc = "select" =>
            /\ IsDuplicateFree(selected \o scored_spots)
            /\ ToSet(selected) \cup ToSet(scored_spots) \subseteq ToSet(spots))

\* the walk is over; it rejected a candidate and accepted a lower-ranked one
\* after it
C13_Witness ==
    /\ pc = "select"
    /\ scored_spots = <<>>
    /\ Len(selected) >= 2
    /\ \E s \in ToSet(spots) \ ToSet(selected) :
          total_score(s, interests)
            > total_score(selected[Len(selected)], interests)


(***************************************************************************)
(* C14.  The spots of a non-empty Itinerary returned by brute_force stand  *)
(* in an order of least total_time: no permutation of the same spots has a *)
(* strictly smaller total_time (2.0 h per spot plus 20 x the distances     *)
(* between consecutive spots).                                             *)
(***************************************************************************)
C14_FastestOrder ==
    (brute_result # None /\ brute_result.spots # <<>>) =>
        /\ brute_result.total_time = TimeOf(brute_result.spots)
        /\ \A p \in ToSet(permutations(Restrict(AllSpots, ToSet(brute_result.spots)))) :
              TimeOf(p) >= brute_result.total_time

\* brute_force returned three or more spots in an order that is not the
\* order of the catalog, which would have taken longer
C14_Witness ==
    /\ brute_result # None
    /\ Len(brute_result.spots) >= 3
    /\ LET listed == Restrict(spots, ToSet(brute_result.spots))
       IN  /\ listed # brute_result.spots
           /\ TimeOf(listed) > brute_result.total_time


\* the feasible subsets of greatest score
BestSubsets ==
    LET feasible == FeasibleSubsets
    IN  {S \in feasible : \A T \in feasible : ScoreOfSet(S) >= ScoreOfSet(T)}

\* brute_force reaches subset S before subset T: sizes in ascending order,
\* and within a size the lexicographic order of the catalog positions
EnumeratedBefore(S, T) ==
    \/ Cardinality(S) < Cardinality(T)
    \/ /\ Cardinality(S) = Cardinality(T)
       /\ S # T
       /\ LET diff  == (S \ T) \cup (T \ S)
              first == CHOOSE s \in diff :
                          \A u \in diff : Position(Capped, s) <= Position(Capped, u)
          IN  first \in S

(***************************************************************************)
(* C15 as claimed.  When several feasible subsets share the greatest       *)
(* score, brute_force returns the one it enumerates first (sizes in        *)
(* ascending order, within a size in lexicographic order of catalog        *)
(* positions).                                                             *)
(***************************************************************************)
C15_Original ==
    (brute_result # None /\ Cardinality(BestSubsets) >= 2) =>
        LET returned == ToSet(brute_result.spots)
        IN  /\ returned \in BestSubsets
            /\ \A T \in BestSubsets \ {returned} : EnumeratedBefore(returned, T)


\* greedy_heuristic has returned
GreedyReturned == pc \in {"greedy_returned", "size", "subset", "done"}

(***************************************************************************)
(* C16.  greedy_heuristic returns a non-empty Itinerary if and only if     *)
(* time_available >= 2.5 h and some catalog spot has entry_fee <= budget.  *)
(* Whenever the selection walk accepts a spot, the repair loop returns a   *)
(* non-empty itinerary that begins with the first accepted spot, so the    *)
(* repair loop never finds current_selection empty and the "return empty"  *)
(* after it is never reached; an empty catalog, or a time budget from      *)
(* 2.0 h up to but not including 2.5 h, yields the empty Itinerary.        *)
(***************************************************************************)
C16_NonEmptyIff ==
    /\ GreedyReturned =>
          /\ greedy_result.spots # <<>> <=>
                /\ time_available >= VISIT_TIME + EST_TRAVEL
                /\ \E i \in 1..Len(spots) : entry_fee(spots[i]) <= budget
          /\ selected # <<>> <=> greedy_result.spots # <<>>
          /\ selected # <<>> => greedy_result.spots[1] = selected[1]
          /\ (spots = <<>> \/ time_available < VISIT_TIME + EST_TRAVEL)
                => greedy_result.spots = <<>>
    /\ pc \in {"repair", "route", "check"} => Len(current_selection) >= 1

\* greedy_heuristic returned a route that begins with the first accepted
\* spot, after the repair loop had pruned the selection
C16_Witness ==
    /\ pc = "greedy_returned"
    /\ Len(current_selection) < Len(selected)
    /\ greedy_result.spots # <<>>
    /\ greedy_result.spots[1] = selected[1]

=============================================================================
